---- MODULE Spec2Model ----
(***************************************************************************)
(* Model of the repository's data structures.                              *)
(*                                                                         *)
(*   handson-2/min-and-max : SegmentTree (range max, lazy clamp update)    *)
(*   handson-1/generics    : Tree (is_bst, max_path_sum)                   *)
(*                                                                         *)
(* Vectors indexed from 0 in the source are functions on 0..len-1 here, so *)
(* that every index of the model is the index the code uses.               *)
(***************************************************************************)
EXTENDS Integers, Sequences, FiniteSets, TLC

VARIABLES
    pc,        \* "start": nothing built yet; "ready": the structure exists;
               \* "panicked": the last call panicked
    nums,      \* the vector handed to SegmentTree::new
    st,        \* the SegmentTree value: [tree, lazy, upper_bound, panic]
    elements,  \* the logical array the tree stands for (reference, not program state)
    last,      \* the last call: [op, left_query, right_query, new_val, ret, panic]
    before,    \* st as it was when the last call started
    twin,      \* a second SegmentTree built from the same vector (SpecTwin)
    nodes      \* Tree.nodes of handson-1 (SpecTree)

vars == <<pc, nums, st, elements, last, before, twin, nodes>>

----------------------------------------------------------------------------
(* Bounds of the model *)

\* Spec: vectors of 1..MaxN elements, elements and caps in 0..MaxVal
MaxN == 3
MaxVal == 1
\* SpecTwin: vectors of 1..TwinN elements, elements and caps in 0..TwinMax
TwinN == 2
TwinMax == 2
\* SpecSigned: vectors of 1..SignedN elements, elements and caps in
\* (NoContribution - 1)..SignedMax, which has values on both sides of the sentinel
SignedN == 2
SignedMax == 0
\* SpecArgs: vectors of 1..ArgN elements, elements and caps in 0..ArgMax
ArgN == 2
ArgMax == 1
\* SpecBuild: vectors of 0..BuildN elements in (0 - BuildMax)..BuildMax
BuildN == 3
BuildMax == 2

\* the value max_query returns for a node outside the query range
NoContribution == -1

Vals == 0..MaxVal
SignedVals == (NoContribution - 1)..SignedMax
ArgVals == 0..ArgMax
BuildVals == (0 - BuildMax)..BuildMax
TwinVals == 0..TwinMax

----------------------------------------------------------------------------
(* Option<T> *)

None == <<>>
Some(v) == <<v>>

\* no panic raised
NoPanic == ""

\* std::cmp::max
cmp_max(a, b) == IF a >= b THEN a ELSE b

----------------------------------------------------------------------------
(* SegmentTree: index arithmetic *)

mid(l, r) == l + (r - l) \div 2

left(curr_index) == (2 * curr_index) + 1

right(curr_index) == (2 * curr_index) + 2

\* a vector access vec[i] panics when i is not an index of vec
InBounds(vec, i) == i \in DOMAIN vec

Panic(s, msg) == [s EXCEPT !.panic = msg]

----------------------------------------------------------------------------
(* Faulty variants of the code, which the claims must tell from it *)

\* propagate that does nothing
propagate_nothing(s, curr_index) == s

\* propagate that forgets the right child
propagate_left_only(s, curr_index) ==
    IF ~InBounds(s.lazy, curr_index) THEN Panic(s, "index out of bounds")
    ELSE IF s.lazy[curr_index] = None THEN s
    ELSE
      LET lazy_val   == s.lazy[curr_index][1]
          left_child == left(curr_index)
          s1 == [s EXCEPT !.tree[curr_index] = lazy_val]
      IN  IF curr_index < (Cardinality(DOMAIN s1.tree) \div 2) - 1
          THEN
            IF ~InBounds(s1.tree, left_child) THEN Panic(s1, "index out of bounds")
            ELSE
              LET s2 == IF s1.tree[left_child] > lazy_val
                        THEN [s1 EXCEPT !.lazy[left_child] = Some(lazy_val)]
                        ELSE s1
              IN  [s2 EXCEPT !.lazy[curr_index] = None]
          ELSE [s1 EXCEPT !.lazy[curr_index] = None]

----------------------------------------------------------------------------
(* SegmentTree::propagate *)

propagate(s, curr_index) ==
    IF ~InBounds(s.lazy, curr_index) THEN Panic(s, "index out of bounds")
    ELSE IF s.lazy[curr_index] = None THEN s
    ELSE
      LET lazy_val    == s.lazy[curr_index][1]
          left_child  == left(curr_index)
          right_child == right(curr_index)
          s1 == [s EXCEPT !.tree[curr_index] = lazy_val]
      IN  IF curr_index < (Cardinality(DOMAIN s1.tree) \div 2) - 1
          THEN
            IF ~InBounds(s1.tree, left_child) THEN Panic(s1, "index out of bounds")
            ELSE
              LET s2 == IF s1.tree[left_child] > lazy_val
                        THEN [s1 EXCEPT !.lazy[left_child] = Some(lazy_val)]
                        ELSE s1
              IN  IF ~InBounds(s2.tree, right_child) THEN Panic(s2, "index out of bounds")
                  ELSE
                    LET s3 == IF s2.tree[right_child] > lazy_val
                              THEN [s2 EXCEPT !.lazy[right_child] = Some(lazy_val)]
                              ELSE s2
                    IN  [s3 EXCEPT !.lazy[curr_index] = None]
          ELSE [s1 EXCEPT !.lazy[curr_index] = None]

----------------------------------------------------------------------------
(* Faulty variants of update_query: "assigns" stores new_val whatever the    *)
(* node holds, "raises" stores it when it is larger, "unchecked" has lost    *)
(* the assertion on the range, "stale" does not recompute a node from its    *)
(* children after a partial overlap                                          *)

RECURSIVE update_query_variant(_, _, _, _, _, _, _, _)
update_query_variant(variant, s, curr_index, left_query, right_query,
                     left_bound, right_bound, new_val) ==
    IF variant # "unchecked" /\ ~(left_query <= right_query)
    THEN Panic(s, "Invalid query range")
    ELSE
      LET p == propagate(s, curr_index) IN
      IF p.panic # NoPanic THEN p
      ELSE IF left_query > right_bound \/ right_query < left_bound THEN p
      ELSE IF left_query <= left_bound /\ right_query >= right_bound THEN
          IF \/ variant = "assigns"
             \/ variant = "raises" /\ new_val > p.tree[curr_index]
             \/ variant \in {"unchecked", "stale"} /\ new_val < p.tree[curr_index]
          THEN propagate([p EXCEPT !.lazy[curr_index] = Some(new_val)], curr_index)
          ELSE p
      ELSE
        LET mid_index   == mid(left_bound, right_bound)
            left_child  == left(curr_index)
            right_child == right(curr_index)
            a == update_query_variant(variant, p, left_child, left_query, right_query,
                                      left_bound, mid_index, new_val)
            b == IF a.panic # NoPanic THEN a
                 ELSE update_query_variant(variant, a, right_child, left_query,
                                           right_query, mid_index + 1, right_bound,
                                           new_val)
        IN  IF b.panic # NoPanic \/ variant = "stale" THEN b
            ELSE [b EXCEPT !.tree[curr_index] =
                               cmp_max(b.tree[left_child], b.tree[right_child])]

update_query_assigns(s, curr_index, left_query, right_query, left_bound, right_bound, new_val) ==
    update_query_variant("assigns", s, curr_index, left_query, right_query,
                         left_bound, right_bound, new_val)

update_query_raises(s, curr_index, left_query, right_query, left_bound, right_bound, new_val) ==
    update_query_variant("raises", s, curr_index, left_query, right_query,
                         left_bound, right_bound, new_val)

update_query_unchecked(s, curr_index, left_query, right_query, left_bound, right_bound, new_val) ==
    update_query_variant("unchecked", s, curr_index, left_query, right_query,
                         left_bound, right_bound, new_val)

update_query_stale(s, curr_index, left_query, right_query, left_bound, right_bound, new_val) ==
    update_query_variant("stale", s, curr_index, left_query, right_query,
                         left_bound, right_bound, new_val)

----------------------------------------------------------------------------
(* SegmentTree::update_query *)

RECURSIVE update_query(_, _, _, _, _, _, _)
update_query(s, curr_index, left_query, right_query, left_bound, right_bound, new_val) ==
    IF ~(left_query <= right_query) THEN Panic(s, "Invalid query range")
    ELSE
      LET p == propagate(s, curr_index) IN
      IF p.panic # NoPanic THEN p
      \* No overlap
      ELSE IF left_query > right_bound \/ right_query < left_bound THEN p
      \* Total overlap
      ELSE IF left_query <= left_bound /\ right_query >= right_bound THEN
          IF new_val < p.tree[curr_index]
          THEN propagate([p EXCEPT !.lazy[curr_index] = Some(new_val)], curr_index)
          ELSE p
      \* Partial overlap
      ELSE
        LET mid_index   == mid(left_bound, right_bound)
            left_child  == left(curr_index)
            right_child == right(curr_index)
            a == update_query(p, left_child, left_query, right_query,
                              left_bound, mid_index, new_val)
            b == IF a.panic # NoPanic THEN a
                 ELSE update_query(a, right_child, left_query, right_query,
                                   mid_index + 1, right_bound, new_val)
        IN  IF b.panic # NoPanic THEN b
            ELSE [b EXCEPT !.tree[curr_index] =
                               cmp_max(b.tree[left_child], b.tree[right_child])]

\* SegmentTree::update
update(s, left_query, right_query, new_val) ==
    update_query(s, 0, left_query, right_query, 0, s.upper_bound, new_val)

----------------------------------------------------------------------------
(* max_query that, like update_query, refreshes a node after a partial      *)
(* overlap, from the two values it got back                                 *)

RECURSIVE max_query_refreshes(_, _, _, _, _, _)
max_query_refreshes(s, curr_index, left_query, right_query, left_bound, right_bound) ==
    IF ~(left_query <= right_query)
    THEN [s |-> Panic(s, "Invalid query range"), ret |-> None]
    ELSE
      LET p == propagate(s, curr_index) IN
      IF p.panic # NoPanic THEN [s |-> p, ret |-> None]
      ELSE IF left_query > right_bound \/ right_query < left_bound
      THEN [s |-> p, ret |-> Some(NoContribution)]
      ELSE IF left_query <= left_bound /\ right_query >= right_bound
      THEN [s |-> p, ret |-> Some(p.tree[curr_index])]
      ELSE
        LET mid_index   == mid(left_bound, right_bound)
            max_left  == max_query_refreshes(p, left(curr_index), left_query, right_query,
                                             left_bound, mid_index)
            max_right == IF max_left.s.panic # NoPanic THEN max_left
                         ELSE max_query_refreshes(max_left.s, right(curr_index), left_query,
                                                  right_query, mid_index + 1, right_bound)
        IN  IF max_right.s.panic # NoPanic THEN [s |-> max_right.s, ret |-> None]
            ELSE [s |-> [max_right.s EXCEPT !.tree[curr_index] =
                                         cmp_max(max_left.ret[1], max_right.ret[1])],
                  ret |-> Some(cmp_max(max_left.ret[1], max_right.ret[1]))]

----------------------------------------------------------------------------
(* SegmentTree::max_query: the tree after the call and the value returned *)

RECURSIVE max_query(_, _, _, _, _, _)
max_query(s, curr_index, left_query, right_query, left_bound, right_bound) ==
    IF ~(left_query <= right_query)
    THEN [s |-> Panic(s, "Invalid query range"), ret |-> None]
    ELSE
      LET p == propagate(s, curr_index) IN
      IF p.panic # NoPanic THEN [s |-> p, ret |-> None]
      \* No overlap
      ELSE IF left_query > right_bound \/ right_query < left_bound
      THEN [s |-> p, ret |-> Some(NoContribution)]
      \* Total overlap
      ELSE IF left_query <= left_bound /\ right_query >= right_bound
      THEN [s |-> p, ret |-> Some(p.tree[curr_index])]
      \* Partial overlap
      ELSE
        LET mid_index   == mid(left_bound, right_bound)
            left_child  == left(curr_index)
            right_child == right(curr_index)
            max_left  == max_query(p, left_child, left_query, right_query,
                                   left_bound, mid_index)
            max_right == IF max_left.s.panic # NoPanic THEN max_left
                         ELSE max_query(max_left.s, right_child, left_query, right_query,
                                        mid_index + 1, right_bound)
        IN  IF max_right.s.panic # NoPanic THEN [s |-> max_right.s, ret |-> None]
            ELSE [s |-> max_right.s, ret |-> Some(cmp_max(max_left.ret[1], max_right.ret[1]))]

\* SegmentTree::max
max(s, left_query, right_query) ==
    max_query(s, 0, left_query, right_query, 0, s.upper_bound)

----------------------------------------------------------------------------
(* usize arithmetic of a 64-bit build without overflow checks, for the one   *)
(* place where it wraps (nums.len() - 1 of an empty vector): a usize is four *)
(* 16-bit limbs, least significant first.                                    *)

LimbBase == 2^16

W(n) == <<n, 0, 0, 0>>

\* a + b modulo 2^64
WAdd(a, b) ==
    LET s1 == a[1] + b[1]
        s2 == a[2] + b[2] + (s1 \div LimbBase)
        s3 == a[3] + b[3] + (s2 \div LimbBase)
        s4 == a[4] + b[4] + (s3 \div LimbBase)
    IN  <<s1 % LimbBase, s2 % LimbBase, s3 % LimbBase, s4 % LimbBase>>

\* a - b modulo 2^64
WSub(a, b) ==
    LET d1 == a[1] - b[1]
        d2 == a[2] - b[2] - (IF d1 < 0 THEN 1 ELSE 0)
        d3 == a[3] - b[3] - (IF d2 < 0 THEN 1 ELSE 0)
        d4 == a[4] - b[4] - (IF d3 < 0 THEN 1 ELSE 0)
    IN  <<d1 % LimbBase, d2 % LimbBase, d3 % LimbBase, d4 % LimbBase>>

\* a / 2
WHalf(a) ==
    <<(a[1] \div 2) + (a[2] % 2) * (LimbBase \div 2),
      (a[2] \div 2) + (a[3] % 2) * (LimbBase \div 2),
      (a[3] \div 2) + (a[4] % 2) * (LimbBase \div 2),
      a[4] \div 2>>

\* vec[a] is in bounds
WInBounds(vec, a) == a[2] = 0 /\ a[3] = 0 /\ a[4] = 0 /\ a[1] \in DOMAIN vec

----------------------------------------------------------------------------
(* build that gives an internal node the value of its left child *)

RECURSIVE build_left_only(_, _, _, _, _)
build_left_only(s, vec, left_bound, right_bound, curr_index) ==
    IF left_bound = right_bound THEN
        IF ~InBounds(vec, left_bound) \/ ~InBounds(s.tree, curr_index)
        THEN Panic(s, "index out of bounds")
        ELSE [s EXCEPT !.tree[curr_index] = vec[left_bound]]
    ELSE
      LET mid_index   == mid(left_bound, right_bound)
          left_child  == left(curr_index)
          right_child == right(curr_index)
          a == build_left_only(s, vec, left_bound, mid_index, left_child)
          b == IF a.panic # NoPanic THEN a
               ELSE build_left_only(a, vec, mid_index + 1, right_bound, right_child)
      IN  IF b.panic # NoPanic THEN b
          ELSE IF ~InBounds(b.tree, left_child) \/ ~InBounds(b.tree, right_child)
                  \/ ~InBounds(b.tree, curr_index)
          THEN Panic(b, "index out of bounds")
          ELSE [b EXCEPT !.tree[curr_index] = b.tree[left_child]]

----------------------------------------------------------------------------
(* SegmentTree::build *)

RECURSIVE build(_, _, _, _, _)
build(s, vec, left_bound, right_bound, curr_index) ==
    IF left_bound = right_bound THEN
        IF ~InBounds(vec, left_bound) \/ ~InBounds(s.tree, curr_index)
        THEN Panic(s, "index out of bounds")
        ELSE [s EXCEPT !.tree[curr_index] = vec[left_bound]]
    ELSE
      LET mid_index   == mid(left_bound, right_bound)
          left_child  == left(curr_index)
          right_child == right(curr_index)
          a == build(s, vec, left_bound, mid_index, left_child)
          b == IF a.panic # NoPanic THEN a
               ELSE build(a, vec, mid_index + 1, right_bound, right_child)
      IN  IF b.panic # NoPanic THEN b
          ELSE IF ~InBounds(b.tree, left_child) \/ ~InBounds(b.tree, right_child)
                  \/ ~InBounds(b.tree, curr_index)
          THEN Panic(b, "index out of bounds")
          ELSE [b EXCEPT !.tree[curr_index] =
                             cmp_max(b.tree[left_child], b.tree[right_child])]

(* build with wrapping 64-bit bounds and indices. The calls nest 64 deep on  *)
(* the empty vector, so the call stack is explicit: a frame is one call of  *)
(* build, `at` its position: "enter", "left" (the first recursive call has  *)
(* returned) or "right" (the second has).                                   *)

WFrame(left_bound, right_bound, curr_index, at) ==
    [left_bound |-> left_bound, right_bound |-> right_bound,
     curr_index |-> curr_index, at |-> at]

\* one step of the call on top of the stack
build_wrapping_step(m) ==
    LET f           == m.stack[Len(m.stack)]
        callers     == SubSeq(m.stack, 1, Len(m.stack) - 1)
        mid_index   == WAdd(f.left_bound, WHalf(WSub(f.right_bound, f.left_bound)))
        left_child  == WAdd(WAdd(f.curr_index, f.curr_index), W(1))
        right_child == WAdd(WAdd(f.curr_index, f.curr_index), W(2))
    IN  IF f.at = "enter" /\ f.left_bound = f.right_bound THEN
            \* self.tree[curr_index] = nums[left_bound]; return
            IF ~WInBounds(m.vec, f.left_bound) \/ ~WInBounds(m.s.tree, f.curr_index)
            THEN [m EXCEPT !.s = Panic(m.s, "index out of bounds")]
            ELSE [m EXCEPT !.s.tree[f.curr_index[1]] = m.vec[f.left_bound[1]],
                           !.stack = callers]
        ELSE IF f.at = "enter" THEN
            \* self.build(nums, left_bound, mid, left_child)
            [m EXCEPT !.stack = Append(Append(callers, [f EXCEPT !.at = "left"]),
                                       WFrame(f.left_bound, mid_index, left_child, "enter"))]
        ELSE IF f.at = "left" THEN
            \* self.build(nums, mid + 1, right_bound, right_child)
            [m EXCEPT !.stack = Append(Append(callers, [f EXCEPT !.at = "right"]),
                                       WFrame(WAdd(mid_index, W(1)), f.right_bound,
                                              right_child, "enter"))]
        ELSE
            \* self.tree[curr_index] = max(self.tree[left_child], self.tree[right_child])
            IF ~WInBounds(m.s.tree, left_child) \/ ~WInBounds(m.s.tree, right_child)
               \/ ~WInBounds(m.s.tree, f.curr_index)
            THEN [m EXCEPT !.s = Panic(m.s, "index out of bounds")]
            ELSE [m EXCEPT !.s.tree[f.curr_index[1]] =
                               cmp_max(m.s.tree[left_child[1]], m.s.tree[right_child[1]]),
                           !.stack = callers]

\* the steps taken until the outermost call returns or a panic unwinds
RECURSIVE build_wrapping_run(_)
build_wrapping_run(m) ==
    IF m.stack = <<>> \/ m.s.panic # NoPanic THEN m.s
    ELSE build_wrapping_run(build_wrapping_step(m))

build_wrapping(s, vec, left_bound, right_bound, curr_index) ==
    build_wrapping_run([s |-> s, vec |-> vec,
                        stack |-> <<WFrame(left_bound, right_bound, curr_index, "enter")>>])

----------------------------------------------------------------------------
(* SegmentTree::new *)

\* the length of a vector
VecLen(vec) == Cardinality(DOMAIN vec)

\* vec![x; n]
VecOf(x, n) == [i \in 0..(n - 1) |-> x]

\* new that allocates 2 * n slots
new_half_slots(vec, overflow_checks) ==
    IF VecLen(vec) >= 1
    THEN build([tree |-> VecOf(-1, 2 * VecLen(vec)), lazy |-> VecOf(None, 2 * VecLen(vec)),
                upper_bound |-> VecLen(vec) - 1, panic |-> NoPanic],
               vec, 0, VecLen(vec) - 1, 0)
    ELSE [tree |-> <<>>, lazy |-> <<>>, upper_bound |-> 0,
          panic |-> "attempt to subtract with overflow"]

\* new that hands back a SegmentTree of no slots for the empty vector
new_accepts_empty(vec, overflow_checks) ==
    IF VecLen(vec) >= 1
    THEN build([tree |-> VecOf(-1, 4 * VecLen(vec)), lazy |-> VecOf(None, 4 * VecLen(vec)),
                upper_bound |-> VecLen(vec) - 1, panic |-> NoPanic],
               vec, 0, VecLen(vec) - 1, 0)
    ELSE [tree |-> <<>>, lazy |-> <<>>, upper_bound |-> 0, panic |-> NoPanic]

\* overflow_checks: the build panics on integer overflow (debug) or wraps (release)
new(vec, overflow_checks) ==
    LET n    == 4 * VecLen(vec)
        tree == VecOf(-1, n)
        lazy == VecOf(None, n)
    IN  IF VecLen(vec) >= 1 THEN
            LET upper_bound  == VecLen(vec) - 1
                segment_tree == [tree |-> tree, lazy |-> lazy,
                                 upper_bound |-> upper_bound, panic |-> NoPanic]
            IN  build(segment_tree, vec, 0, upper_bound, 0)
        ELSE IF overflow_checks THEN
            [tree |-> tree, lazy |-> lazy, upper_bound |-> 0,
             panic |-> "attempt to subtract with overflow"]
        ELSE
            LET upper_bound  == WSub(W(0), W(1))
                segment_tree == [tree |-> tree, lazy |-> lazy,
                                 upper_bound |-> upper_bound, panic |-> NoPanic]
            IN  build_wrapping(segment_tree, vec, W(0), upper_bound, W(0))

----------------------------------------------------------------------------
(* The reference array *)

\* update(l, r, cap) of the logical array: element[p] := min(element[p], cap) on [l, r]
Clamp(e, l, r, cap) ==
    [p \in DOMAIN e |-> IF l <= p /\ p <= r /\ cap < e[p] THEN cap ELSE e[p]]

\* the maximum of e[l..r]
MaxOver(e, l, r) == CHOOSE m \in {e[p] : p \in l..r} : \A p \in l..r : e[p] <= m

----------------------------------------------------------------------------
(* The calls a caller can make on a SegmentTree *)

\* the vectors of 1..maxn elements of vals
Vectors(maxn, vals) == UNION {[0..(n - 1) -> vals] : n \in 1..maxn}

NoCall == [op |-> "none", left_query |-> 0, right_query |-> 0, new_val |-> 0,
           ret |-> None, panic |-> NoPanic]

NoTree == [tree |-> <<>>, lazy |-> <<>>, upper_bound |-> 0, panic |-> NoPanic]

\* the state right after SegmentTree::new(&vec); a panic leaves no SegmentTree
Constructed(vec, overflow_checks) ==
    LET s == new(vec, overflow_checks) IN
        /\ pc = IF s.panic = NoPanic THEN "ready" ELSE "panicked"
        /\ nums = vec
        /\ st = IF s.panic = NoPanic THEN s ELSE NoTree
        /\ elements = vec
        /\ last = [NoCall EXCEPT !.op = "new", !.panic = s.panic]
        /\ before = NoTree
        /\ twin = NoTree
        /\ nodes = <<>>

\* the state right after `let mut st = SegmentTree::new(&nums)` in main
Built(inputs) == \E vec \in inputs : Constructed(vec, TRUE)

\* st.update(l, r, cap); snapshot: whether `before` keeps the tree the call started from
UpdateStep(l, r, cap, snapshot) ==
    /\ pc = "ready"
    /\ LET s == update(st, l, r, cap) IN
        /\ st' = s
        /\ pc' = IF s.panic = NoPanic THEN "ready" ELSE "panicked"
        /\ last' = [op |-> "update", left_query |-> l, right_query |-> r,
                    new_val |-> cap, ret |-> None, panic |-> s.panic]
        /\ elements' = IF s.panic = NoPanic THEN Clamp(elements, l, r, cap) ELSE elements
    /\ before' = IF snapshot \/ pc' = "panicked" THEN st ELSE NoTree
    /\ nums' = <<>>

\* st.max(l, r)
QueryStep(l, r, snapshot) ==
    /\ pc = "ready"
    /\ LET m == max(st, l, r) IN
        /\ st' = m.s
        /\ pc' = IF m.s.panic = NoPanic THEN "ready" ELSE "panicked"
        /\ last' = [op |-> "max", left_query |-> l, right_query |-> r,
                    new_val |-> 0, ret |-> m.ret, panic |-> m.s.panic]
    /\ before' = IF snapshot \/ pc' = "panicked" THEN st ELSE NoTree
    /\ nums' = <<>>
    /\ UNCHANGED elements

\* the same calls in a program that holds one SegmentTree
UpdateCall(l, r, cap, snapshot) ==
    UpdateStep(l, r, cap, snapshot) /\ UNCHANGED <<twin, nodes>>

QueryCall(l, r, snapshot) ==
    QueryStep(l, r, snapshot) /\ UNCHANGED <<twin, nodes>>

\* the ranges 0 <= l <= r <= upper_bound
ValidRanges(s) == {x \in (0..s.upper_bound) \X (0..s.upper_bound) : x[1] <= x[2]}

----------------------------------------------------------------------------
(* Spec: valid updates and queries on non-negative elements *)

Init == Built(Vectors(MaxN, Vals))

Update == \E x \in ValidRanges(st), cap \in Vals : UpdateCall(x[1], x[2], cap, FALSE)

MaxCall == \E x \in ValidRanges(st) : QueryCall(x[1], x[2], FALSE)

Next == Update \/ MaxCall

Spec == Init /\ [][Next]_vars

----------------------------------------------------------------------------
(* Claims checked under Spec *)

\* the value st.max(l, r) would return in state s
Observed(s, l, r) == max(s, l, r).ret

\* C1: after any sequence of valid updates with cap >= 0 and max queries on a
\* tree built from non-negative elements, max(l, r) returns the maximum of the
\* logical array over [l, r], for every valid range; the value the last max
\* call returned is that maximum too.
C1_MaxIsLogicalMaximum ==
    pc = "ready" =>
        /\ \A x \in ValidRanges(st) :
               Observed(st, x[1], x[2]) = Some(MaxOver(elements, x[1], x[2]))
        /\ last.op = "max" =>
               last.ret = Some(MaxOver(elements, last.left_query, last.right_query))

\* a max query over a proper sub-range answered while a clamp is still pending
\* below the root and some element has been lowered
C1_Witness ==
    /\ pc = "ready"
    /\ last.op = "max"
    /\ last.left_query > 0
    /\ \E i \in DOMAIN st.lazy : st.lazy[i] # None
    /\ \E p \in DOMAIN elements : elements[p] < st.tree[0]

----------------------------------------------------------------------------
(* SpecSigned: valid updates and queries on elements and caps of either sign, *)
(* each call keeping the tree it started from                                 *)

InitSigned == Built(Vectors(SignedN, SignedVals))

UpdateSigned ==
    \E x \in ValidRanges(st), cap \in SignedVals : UpdateCall(x[1], x[2], cap, TRUE)

MaxSigned == \E x \in ValidRanges(st) : QueryCall(x[1], x[2], TRUE)

NextSigned == UpdateSigned \/ MaxSigned

SpecSigned == InitSigned /\ [][NextSigned]_vars

\* the claim of C2 for caps in capset
ClampSeenThroughSingletons(capset) ==
    (pc = "ready" /\ last.op = "update" /\ last.new_val \in capset) =>
        \A p \in 0..st.upper_bound :
            LET v_p == Observed(before, p, p)[1]
                now == Observed(st, p, p)[1]
            IN  IF last.left_query <= p /\ p <= last.right_query
                THEN now = (IF last.new_val < v_p THEN last.new_val ELSE v_p)
                ELSE now = v_p

\* C2: for every valid range and every integer cap, if max(p, p)
\* returned v_p just before update(l, r, cap), it returns min(v_p, cap) just
\* after for p in [l, r] and v_p for p outside.
C2_AnyCap == ClampSeenThroughSingletons(SignedVals)

\* C4: for every fixed valid range, the value max(l, r) returns never increases
\* from one call of update or max to the next.
C4_MaxNeverIncreases ==
    (pc = "ready" /\ last.op \in {"update", "max"}) =>
        \A x \in ValidRanges(st) :
            Observed(st, x[1], x[2])[1] <= Observed(before, x[1], x[2])[1]

\* an update that lowered the maximum of some range
C4_Witness ==
    /\ pc = "ready"
    /\ last.op = "update"
    /\ \E x \in ValidRanges(st) :
           Observed(st, x[1], x[2])[1] < Observed(before, x[1], x[2])[1]

----------------------------------------------------------------------------
(* SpecArgs: valid calls, and calls whose range is inverted or passes the end *)
(* of the array                                                               *)

InitArgs == Built(Vectors(ArgN, ArgVals))

\* the pairs (l, r) with l > r, up to one position past the end
InvertedRanges(s) ==
    {x \in (0..(s.upper_bound + 1)) \X (0..(s.upper_bound + 1)) : x[1] > x[2]}

\* the pairs (l, r) with l <= r and r one position past the end
OutOfRangeRanges(s) ==
    {x \in (0..(s.upper_bound + 1)) \X {s.upper_bound + 1} : x[1] <= x[2]}

UpdateArgs ==
    \E x \in ValidRanges(st), cap \in ArgVals : UpdateCall(x[1], x[2], cap, FALSE)

MaxArgs == \E x \in ValidRanges(st) : QueryCall(x[1], x[2], FALSE)

UpdateInverted ==
    \E x \in InvertedRanges(st), cap \in ArgVals : UpdateCall(x[1], x[2], cap, TRUE)

MaxInverted == \E x \in InvertedRanges(st) : QueryCall(x[1], x[2], TRUE)

UpdateOutOfRange ==
    \E x \in OutOfRangeRanges(st), cap \in ArgVals : UpdateCall(x[1], x[2], cap, TRUE)

MaxOutOfRange == \E x \in OutOfRangeRanges(st) : QueryCall(x[1], x[2], TRUE)

NextArgs ==
    \/ UpdateArgs
    \/ MaxArgs
    \/ UpdateInverted
    \/ MaxInverted
    \/ UpdateOutOfRange
    \/ MaxOutOfRange

SpecArgs == InitArgs /\ [][NextArgs]_vars

\* C6: update(l, r, cap) and max(l, r) with l <= r and r past the end of the
\* array fail instead of returning normally, and return no value.
C6_OutOfRangeRejected ==
    (/\ last.op \in {"update", "max"}
     /\ last.left_query <= last.right_query
     /\ last.right_query > st.upper_bound)
        => (pc = "panicked" /\ last.panic # NoPanic /\ last.ret = None)

\* C7: update(l, r, cap) and max(l, r) with l > r panic with "Invalid query
\* range", return nothing, and leave tree and lazy as they were before the call.
C7_InvertedRangeRejected ==
    (last.op \in {"update", "max"} /\ last.left_query > last.right_query) =>
        /\ pc = "panicked"
        /\ last.panic = "Invalid query range"
        /\ last.ret = None
        /\ st.tree = before.tree
        /\ st.lazy = before.lazy
        /\ st.upper_bound = before.upper_bound

\* an inverted update rejected on a tree that holds a pending clamp
C7_Witness ==
    /\ pc = "panicked"
    /\ last.op = "update"
    /\ last.left_query > last.right_query
    /\ last.left_query <= st.upper_bound
    /\ \E i \in DOMAIN st.lazy : st.lazy[i] # None

----------------------------------------------------------------------------
(* SpecBuild: SegmentTree::new on a vector of any length and sign, followed *)
(* by one max over the whole array                                          *)

InitBuild ==
    \E vec \in {<<>>} \cup Vectors(BuildN, BuildVals), overflow_checks \in BOOLEAN :
        Constructed(vec, overflow_checks)

\* st.max(0, nums.len() - 1) right after new
MaxAfterNew ==
    /\ last.op = "new"
    /\ QueryCall(0, VecLen(nums) - 1, FALSE)

\* any later max over a valid range
MaxLater ==
    /\ last.op = "max"
    /\ \E x \in ValidRanges(st) : QueryCall(x[1], x[2], FALSE)

NextBuild == MaxAfterNew \/ MaxLater

SpecBuild == InitBuild /\ [][NextBuild]_vars

\* C3: max(0, len(A) - 1) called right after SegmentTree::new(A) returns the
\* maximum element of A, for every non-empty A of integers of any sign.
C3_BuildGivesMaximum ==
    /\ (pc = "ready" /\ last.op = "new") =>
           Observed(st, 0, VecLen(nums) - 1) = Some(MaxOver(nums, 0, VecLen(nums) - 1))
    /\ (pc = "ready" /\ last.op = "max"
            /\ last.left_query = 0 /\ last.right_query = st.upper_bound) =>
           last.ret = Some(MaxOver(elements, 0, VecLen(elements) - 1))

\* the query answered for a vector of three negative elements below the sentinel
C3_Witness ==
    /\ pc = "ready"
    /\ last.op = "max"
    /\ VecLen(elements) >= 3
    /\ last.ret[1] < NoContribution

\* C8: SegmentTree::new on a vector of length 0 fails and returns no
\* SegmentTree, with overflow checks and with wrapping usize arithmetic.
C8_EmptyInputRejected ==
    (last.op = "new" /\ VecLen(nums) = 0) =>
        (pc = "panicked" /\ last.panic # NoPanic /\ st = NoTree)

\* the wrapping build of the empty vector, stopped by the index into nums
C8_Witness ==
    /\ pc = "panicked"
    /\ last.op = "new"
    /\ VecLen(nums) = 0
    /\ last.panic = "index out of bounds"

----------------------------------------------------------------------------
(* SpecTwin: two trees built from the same vector receive the same calls,   *)
(* except that the twin is not given the updates whose cap is at least the  *)
(* logical maximum of their range                                           *)

InitTwin ==
    \E vec \in Vectors(TwinN, TwinVals) :
        /\ pc = "ready"
        /\ nums = vec
        /\ st = new(vec, TRUE)
        /\ twin = new(vec, TRUE)
        /\ elements = vec
        /\ last = [NoCall EXCEPT !.op = "new"]
        /\ before = NoTree
        /\ nodes = <<>>

\* an update that lowers some element: both trees receive it
UpdateBoth ==
    \E x \in ValidRanges(st), cap \in TwinVals :
        /\ cap < MaxOver(elements, x[1], x[2])
        /\ UpdateStep(x[1], x[2], cap, FALSE)
        /\ twin' = update(twin, x[1], x[2], cap)
        /\ UNCHANGED nodes

\* an update with cap >= the logical maximum of its range: st alone receives it
UpdateNoOp ==
    \E x \in ValidRanges(st), cap \in TwinVals :
        /\ cap >= MaxOver(elements, x[1], x[2])
        /\ UpdateStep(x[1], x[2], cap, FALSE)
        /\ UNCHANGED <<twin, nodes>>

MaxBoth ==
    \E x \in ValidRanges(st) :
        /\ QueryStep(x[1], x[2], FALSE)
        /\ twin' = max(twin, x[1], x[2]).s
        /\ UNCHANGED nodes

NextTwin == UpdateBoth \/ UpdateNoOp \/ MaxBoth

SpecTwin == InitTwin /\ [][NextTwin]_vars

\* C5: an update whose cap is at least the current logical maximum of its
\* range changes the result of no later max query: whatever calls follow, the
\* tree that received such updates and the tree that did not answer every max
\* query alike.
C5_LargeCapIsNoOp ==
    pc = "ready" =>
        \A x \in ValidRanges(st) : Observed(st, x[1], x[2]) = Observed(twin, x[1], x[2])

\* st has received an update with cap >= the maximum of its range that the twin
\* has not, and the two trees differ inside
C5_Witness ==
    /\ pc = "ready"
    /\ last.op = "update"
    /\ last.new_val >= MaxOver(elements, last.left_query, last.right_query)
    /\ st # twin

----------------------------------------------------------------------------
(* handson-1: Tree<T>, with T = i32 *)

\* SpecTree: trees of at most TreeMaxNodes nodes with keys in 0..TreeMaxKey
TreeMaxNodes == 4
TreeMaxKey == 2

TreeKeys == 0..TreeMaxKey

\* Node::new
Node(key) == [key |-> key, id_left |-> None, id_right |-> None]

\* Tree::with_root
with_root(key) == [i \in 0..0 |-> Node(key)]

\* add_node that has lost the assertions on the side of the parent
add_node_overwrites(ns, parent_id, key, is_left) ==
    IF ~(parent_id < VecLen(ns))
    THEN [nodes |-> ns, ret |-> None, panic |-> "Parent node id does not exist"]
    ELSE
      LET child_id == VecLen(ns)
          pushed   == [i \in 0..child_id |-> IF i = child_id THEN Node(key) ELSE ns[i]]
      IN  [nodes |-> IF is_left
                     THEN [pushed EXCEPT ![parent_id].id_left = Some(child_id)]
                     ELSE [pushed EXCEPT ![parent_id].id_right = Some(child_id)],
           ret |-> Some(child_id),
           panic |-> NoPanic]

\* Tree::add_node: the nodes after the call, the id returned, the panic raised
add_node(ns, parent_id, key, is_left) ==
    IF ~(parent_id < VecLen(ns))
    THEN [nodes |-> ns, ret |-> None, panic |-> "Parent node id does not exist"]
    ELSE IF is_left /\ ns[parent_id].id_left # None
    THEN [nodes |-> ns, ret |-> None,
          panic |-> "Parent node has the left child already set"]
    ELSE IF ~is_left /\ ns[parent_id].id_right # None
    THEN [nodes |-> ns, ret |-> None,
          panic |-> "Parent node has the right child already set"]
    ELSE
      LET child_id == VecLen(ns)
          pushed   == [i \in 0..child_id |-> IF i = child_id THEN Node(key) ELSE ns[i]]
      IN  [nodes |-> IF is_left
                     THEN [pushed EXCEPT ![parent_id].id_left = Some(child_id)]
                     ELSE [pushed EXCEPT ![parent_id].id_right = Some(child_id)],
           ret |-> Some(child_id),
           panic |-> NoPanic]

\* Option<T>::unwrap_or
unwrap_or(opt, default) == IF opt = None THEN default ELSE opt[1]

\* Iterator::max over the items of Options chained together
OptionsMax(opts) ==
    LET items == {o[1] : o \in {x \in opts : x # None}}
    IN  IF items = {} THEN None
        ELSE Some(CHOOSE m \in items : \A x \in items : x <= m)

\* rec_bst that takes equal keys next to each other for a violation
RECURSIVE rec_bst_strict(_, _, _)
rec_bst_strict(ns, current_node, previous_node) ==
    IF current_node = None
    THEN [ret |-> TRUE, previous_node |-> previous_node, panic |-> NoPanic]
    ELSE
      LET current_id == current_node[1] IN
      IF ~(current_id < VecLen(ns))
      THEN [ret |-> FALSE, previous_node |-> previous_node,
            panic |-> "Node id is out of range"]
      ELSE
        LET l == rec_bst_strict(ns, ns[current_id].id_left, previous_node) IN
        IF l.panic # NoPanic \/ ~l.ret THEN [l EXCEPT !.ret = FALSE]
        ELSE IF l.previous_node # None /\ l.previous_node[1] >= ns[current_id].key
        THEN [ret |-> FALSE, previous_node |-> l.previous_node, panic |-> NoPanic]
        ELSE rec_bst_strict(ns, ns[current_id].id_right, Some(ns[current_id].key))

\* Tree::rec_bst: the value returned, *previous_node after the call, the panic raised
RECURSIVE rec_bst(_, _, _)
rec_bst(ns, current_node, previous_node) ==
    IF current_node = None
    THEN [ret |-> TRUE, previous_node |-> previous_node, panic |-> NoPanic]
    ELSE
      LET current_id == current_node[1] IN
      IF ~(current_id < VecLen(ns))
      THEN [ret |-> FALSE, previous_node |-> previous_node,
            panic |-> "Node id is out of range"]
      ELSE
        LET l == rec_bst(ns, ns[current_id].id_left, previous_node) IN
        IF l.panic # NoPanic \/ ~l.ret THEN [l EXCEPT !.ret = FALSE]
        ELSE IF l.previous_node # None /\ l.previous_node[1] > ns[current_id].key
        THEN [ret |-> FALSE, previous_node |-> l.previous_node, panic |-> NoPanic]
        ELSE rec_bst(ns, ns[current_id].id_right, Some(ns[current_id].key))

\* Tree::is_bst
is_bst(ns) == rec_bst(ns, Some(0), None)

\* rec_max_path_sum that hands its caller the path joined through the node
RECURSIVE rec_max_path_sum_joined(_, _)
rec_max_path_sum_joined(ns, current_node) ==
    IF current_node = None
    THEN [max_sum |-> None, path_sum |-> None, panic |-> NoPanic]
    ELSE
      LET current_id == current_node[1] IN
      IF ~(current_id < VecLen(ns))
      THEN [max_sum |-> None, path_sum |-> None, panic |-> "Node id is out of range"]
      ELSE
        LET node == ns[current_id]
            l == rec_max_path_sum_joined(ns, node.id_left)
            r == rec_max_path_sum_joined(ns, node.id_right)
            left_sum  == unwrap_or(l.path_sum, 0)
            right_sum == unwrap_or(r.path_sum, 0)
        IN  IF l.panic # NoPanic THEN l
            ELSE IF r.panic # NoPanic THEN r
            ELSE [max_sum  |-> OptionsMax({l.max_sum, r.max_sum,
                                           Some(node.key + left_sum + right_sum)}),
                  path_sum |-> Some(node.key + left_sum + right_sum),
                  panic    |-> NoPanic]

\* Tree::rec_max_path_sum: (max_sum, path_sum) and the panic raised
RECURSIVE rec_max_path_sum(_, _)
rec_max_path_sum(ns, current_node) ==
    IF current_node = None
    THEN [max_sum |-> None, path_sum |-> None, panic |-> NoPanic]
    ELSE
      LET current_id == current_node[1] IN
      IF ~(current_id < VecLen(ns))
      THEN [max_sum |-> None, path_sum |-> None, panic |-> "Node id is out of range"]
      ELSE
        LET node == ns[current_id]
            l == rec_max_path_sum(ns, node.id_left)
            r == rec_max_path_sum(ns, node.id_right)
            left_sum  == unwrap_or(l.path_sum, 0)
            right_sum == unwrap_or(r.path_sum, 0)
        IN  IF l.panic # NoPanic THEN l
            ELSE IF r.panic # NoPanic THEN r
            ELSE [max_sum  |-> OptionsMax({l.max_sum, r.max_sum,
                                           Some(node.key + left_sum + right_sum)}),
                  path_sum |-> Some(node.key + cmp_max(left_sum, right_sum)),
                  panic    |-> NoPanic]

\* Tree::max_path_sum
max_path_sum(ns) == rec_max_path_sum(ns, Some(0))

----------------------------------------------------------------------------
(* SpecTree: with_root, then add_node calls that succeed, with is_bst and    *)
(* max_path_sum called in between                                            *)

InitTree ==
    \E key \in TreeKeys :
        /\ pc = "ready"
        /\ nodes = with_root(key)
        /\ last = [NoCall EXCEPT !.op = "with_root"]
        /\ nums = <<>>
        /\ st = NoTree
        /\ elements = <<>>
        /\ before = NoTree
        /\ twin = NoTree

\* tree.add_node(parent_id, key, is_left)
AddNodeCall(parent_id, key, is_left) ==
    /\ pc = "ready"
    /\ LET a == add_node(nodes, parent_id, key, is_left) IN
        /\ nodes' = a.nodes
        /\ pc' = IF a.panic = NoPanic THEN "ready" ELSE "panicked"
        /\ last' = [NoCall EXCEPT !.op = "add_node", !.ret = a.ret, !.panic = a.panic]
    /\ UNCHANGED <<nums, st, elements, before, twin>>

\* an add_node whose parent exists and has the chosen side free
AddNode ==
    /\ VecLen(nodes) < TreeMaxNodes
    /\ \E parent_id \in DOMAIN nodes, key \in TreeKeys, is_left \in BOOLEAN :
        /\ (IF is_left THEN nodes[parent_id].id_left ELSE nodes[parent_id].id_right) = None
        /\ AddNodeCall(parent_id, key, is_left)

\* tree.is_bst()
IsBst ==
    /\ pc = "ready"
    /\ LET b == is_bst(nodes) IN
        /\ pc' = IF b.panic = NoPanic THEN "ready" ELSE "panicked"
        /\ last' = [NoCall EXCEPT !.op = "is_bst",
                                  !.ret = IF b.panic = NoPanic THEN Some(b.ret) ELSE None,
                                  !.panic = b.panic]
    /\ UNCHANGED <<nodes, nums, st, elements, before, twin>>

\* tree.max_path_sum()
MaxPathSum ==
    /\ pc = "ready"
    /\ LET m == max_path_sum(nodes) IN
        /\ pc' = IF m.panic = NoPanic THEN "ready" ELSE "panicked"
        /\ last' = [NoCall EXCEPT !.op = "max_path_sum",
                                  !.ret = IF m.panic = NoPanic THEN Some(m.max_sum) ELSE None,
                                  !.panic = m.panic]
    /\ UNCHANGED <<nodes, nums, st, elements, before, twin>>

NextTree == AddNode \/ IsBst \/ MaxPathSum

SpecTree == InitTree /\ [][NextTree]_vars

\* the keys of the subtree of id in in-order
RECURSIVE InOrder(_, _)
InOrder(ns, id) ==
    IF id = None THEN <<>>
    ELSE InOrder(ns, ns[id[1]].id_left) \o <<ns[id[1]].key>> \o InOrder(ns, ns[id[1]].id_right)

NonDecreasing(seq) == \A i \in 1..(Len(seq) - 1) : seq[i] <= seq[i + 1]

\* C9: is_bst returns true exactly when the in-order traversal of the keys is
\* non-decreasing (equal adjacent keys allowed).
C9_IsBstIffInOrderNonDecreasing ==
    (pc = "ready" /\ last.op = "is_bst") =>
        last.ret = Some(NonDecreasing(InOrder(nodes, Some(0))))

\* is_bst answered true on a tree of three or more nodes with two equal keys
\* next to each other in in-order
C9_Witness ==
    /\ pc = "ready"
    /\ last.op = "is_bst"
    /\ last.ret = Some(TRUE)
    /\ VecLen(nodes) >= 3
    /\ \E i \in 1..(VecLen(nodes) - 1) :
           InOrder(nodes, Some(0))[i] = InOrder(nodes, Some(0))[i + 1]

\* the sums of the downward paths that start at node id
RECURSIVE DownSums(_, _)
DownSums(ns, id) ==
    IF id = None THEN {}
    ELSE LET below == DownSums(ns, ns[id[1]].id_left) \cup DownSums(ns, ns[id[1]].id_right)
         IN  {ns[id[1]].key} \cup {ns[id[1]].key + x : x \in below}

\* the sums of the simple paths: through a node, down into its left subtree and
\* down into its right subtree, either side possibly empty
PathSums(ns) ==
    UNION {{ns[v].key + a + b : a \in {0} \cup DownSums(ns, ns[v].id_left),
                                b \in {0} \cup DownSums(ns, ns[v].id_right)}
           : v \in DOMAIN ns}

\* C10: with non-negative keys, max_path_sum returns Some(m), m the maximum of
\* the sums of the simple paths of the tree; it never returns None.
C10_MaxPathSumIsMaximum ==
    (pc = "ready" /\ last.op = "max_path_sum") =>
        /\ last.ret[1] # None
        /\ last.ret[1][1] \in PathSums(nodes)
        /\ \A x \in PathSums(nodes) : x <= last.ret[1][1]

\* max_path_sum answered on a tree whose best path joins two subtrees below
\* the root
C10_Witness ==
    /\ pc = "ready"
    /\ last.op = "max_path_sum"
    /\ VecLen(nodes) >= 4
    /\ \E v \in DOMAIN nodes :
           /\ v # 0
           /\ nodes[v].id_left # None
           /\ nodes[v].id_right # None
           /\ last.ret[1][1] > max_path_sum([i \in DOMAIN nodes |->
                                   IF i = v THEN [nodes[i] EXCEPT !.id_right = None]
                                   ELSE nodes[i]]).max_sum[1]
           /\ last.ret[1][1] > nodes[0].key + cmp_max(
                                   unwrap_or(rec_max_path_sum(nodes, nodes[0].id_left).path_sum, 0),
                                   unwrap_or(rec_max_path_sum(nodes, nodes[0].id_right).path_sum, 0))

----------------------------------------------------------------------------
(* SpecTreeArgs: add_node with any parent_id up to one past the last node   *)
(* and either side, free or taken; `before` keeps the node list the call    *)
(* started from and `last` its arguments                                    *)

TreeArgNodes == 3
TreeArgKey == 1

TreeArgKeys == 0..TreeArgKey

InitTreeArgs ==
    \E key \in TreeArgKeys :
        /\ pc = "ready"
        /\ nodes = with_root(key)
        /\ last = [NoCall EXCEPT !.op = "with_root"]
        /\ nums = <<>>
        /\ st = NoTree
        /\ elements = <<>>
        /\ before = <<>>
        /\ twin = NoTree

\* tree.add_node(parent_id, key, is_left), the call recorded
AddNodeRecorded(parent_id, key, is_left) ==
    /\ pc = "ready"
    /\ LET a == add_node(nodes, parent_id, key, is_left) IN
        /\ nodes' = a.nodes
        /\ pc' = IF a.panic = NoPanic THEN "ready" ELSE "panicked"
        /\ last' = [op |-> "add_node", parent_id |-> parent_id, key |-> key,
                    is_left |-> is_left, ret |-> a.ret, panic |-> a.panic]
    /\ before' = nodes
    /\ UNCHANGED <<nums, st, elements, twin>>

\* the side of parent_id that is_left chooses
ChosenSide(ns, parent_id, is_left) ==
    IF is_left THEN ns[parent_id].id_left ELSE ns[parent_id].id_right

\* the parent exists and the side is free
AddNodeFree ==
    /\ VecLen(nodes) < TreeArgNodes
    /\ \E parent_id \in DOMAIN nodes, key \in TreeArgKeys, is_left \in BOOLEAN :
        /\ ChosenSide(nodes, parent_id, is_left) = None
        /\ AddNodeRecorded(parent_id, key, is_left)

\* the parent exists and the side has a child
AddNodeTaken ==
    \E parent_id \in DOMAIN nodes, key \in TreeArgKeys, is_left \in BOOLEAN :
        /\ ChosenSide(nodes, parent_id, is_left) # None
        /\ AddNodeRecorded(parent_id, key, is_left)

\* parent_id is not the id of a node
AddNodeNoParent ==
    \E key \in TreeArgKeys, is_left \in BOOLEAN :
        AddNodeRecorded(VecLen(nodes), key, is_left)

NextTreeArgs == AddNodeFree \/ AddNodeTaken \/ AddNodeNoParent

SpecTreeArgs == InitTreeArgs /\ [][NextTreeArgs]_vars

\* C11: add_node panics, the node list and every child link unchanged, when
\* parent_id is not the id of a node or the chosen side of the parent has a
\* child; otherwise it appends exactly one node, links it only as that child of
\* parent_id, and returns its id, the number of nodes before the call.
C11_AddNodePanicsOrAppends ==
    last.op = "add_node" =>
        IF \/ last.parent_id \notin DOMAIN before
           \/ ChosenSide(before, last.parent_id, last.is_left) # None
        THEN /\ pc = "panicked"
             /\ last.panic # NoPanic
             /\ last.ret = None
             /\ nodes = before
        ELSE /\ pc = "ready"
             /\ last.panic = NoPanic
             /\ last.ret = Some(VecLen(before))
             /\ DOMAIN nodes = 0..VecLen(before)
             /\ nodes[VecLen(before)] = Node(last.key)
             /\ \A i \in DOMAIN before :
                    /\ nodes[i].key = before[i].key
                    /\ nodes[i].id_left =
                           IF i = last.parent_id /\ last.is_left
                           THEN Some(VecLen(before)) ELSE before[i].id_left
                    /\ nodes[i].id_right =
                           IF i = last.parent_id /\ ~last.is_left
                           THEN Some(VecLen(before)) ELSE before[i].id_right

\* an add_node refused because the side of an existing parent, not the root,
\* has a child already
C11_Witness ==
    /\ pc = "panicked"
    /\ last.op = "add_node"
    /\ last.parent_id \in DOMAIN before
    /\ last.parent_id # 0
    /\ last.panic = "Parent node has the right child already set"

----------------------------------------------------------------------------
(* The reads of the total-overlap branch: what update_query and max_query   *)
(* find at a node when they reach `left_query <= left_bound && right_query  *)
(* >= right_bound`, after propagate(curr_index)                             *)

ReadAt(p, curr_index, left_bound, right_bound) ==
    [curr_index |-> curr_index, left_bound |-> left_bound, right_bound |-> right_bound,
     lazy |-> p.lazy[curr_index], value |-> p.tree[curr_index]]

\* the reads of max_query, in a call that starts from s
RECURSIVE max_query_reads(_, _, _, _, _, _)
max_query_reads(s, curr_index, left_query, right_query, left_bound, right_bound) ==
    IF ~(left_query <= right_query) THEN {}
    ELSE
      LET p == propagate(s, curr_index) IN
      IF p.panic # NoPanic THEN {}
      ELSE IF left_query > right_bound \/ right_query < left_bound THEN {}
      ELSE IF left_query <= left_bound /\ right_query >= right_bound
      THEN {ReadAt(p, curr_index, left_bound, right_bound)}
      ELSE
        LET mid_index == mid(left_bound, right_bound)
            max_left  == max_query(p, left(curr_index), left_query, right_query,
                                   left_bound, mid_index)
        IN  max_query_reads(p, left(curr_index), left_query, right_query,
                            left_bound, mid_index)
            \cup (IF max_left.s.panic # NoPanic THEN {}
                  ELSE max_query_reads(max_left.s, right(curr_index), left_query,
                                       right_query, mid_index + 1, right_bound))

\* the reads of update_query, in a call that starts from s
RECURSIVE update_query_reads(_, _, _, _, _, _, _)
update_query_reads(s, curr_index, left_query, right_query, left_bound, right_bound, new_val) ==
    IF ~(left_query <= right_query) THEN {}
    ELSE
      LET p == propagate(s, curr_index) IN
      IF p.panic # NoPanic THEN {}
      ELSE IF left_query > right_bound \/ right_query < left_bound THEN {}
      ELSE IF left_query <= left_bound /\ right_query >= right_bound
      THEN {ReadAt(p, curr_index, left_bound, right_bound)}
      ELSE
        LET mid_index == mid(left_bound, right_bound)
            a == update_query(p, left(curr_index), left_query, right_query,
                              left_bound, mid_index, new_val)
        IN  update_query_reads(p, left(curr_index), left_query, right_query,
                               left_bound, mid_index, new_val)
            \cup (IF a.panic # NoPanic THEN {}
                  ELSE update_query_reads(a, right(curr_index), left_query, right_query,
                                          mid_index + 1, right_bound, new_val))

\* a read finds no pending clamp and the maximum of the node's range
ReadIsCurrent(v) ==
    /\ v.lazy = None
    /\ v.value = MaxOver(elements, v.left_bound, v.right_bound)

\* C12: for elements and caps of either sign, whenever max_query or
\* update_query reaches its total-overlap branch at a node, lazy[node] is None
\* and tree[node] is the maximum of the logical elements of the node's range:
\* this holds of every call that can start from a reachable tree.
C12_ReadsSeeDischargedValues ==
    pc = "ready" =>
        \A x \in ValidRanges(st) :
            /\ \A v \in max_query_reads(st, 0, x[1], x[2], 0, st.upper_bound) :
                   ReadIsCurrent(v)
            /\ \A cap \in SignedVals :
                   \A v \in update_query_reads(st, 0, x[1], x[2], 0, st.upper_bound, cap) :
                       ReadIsCurrent(v)

\* a max call has read, below the root, a node that held a pending clamp when
\* the call started
C12_Witness ==
    /\ pc = "ready"
    /\ last.op = "max"
    /\ \E v \in max_query_reads(before, 0, last.left_query, last.right_query,
                                0, before.upper_bound) :
           /\ v.curr_index # 0
           /\ before.lazy[v.curr_index] # None
           /\ v.value < before.tree[v.curr_index]

----------------------------------------------------------------------------
(* The writes of propagate to the lazy entries of children, found by        *)
(* comparing lazy before and after                                          *)

\* the entries other than curr_index that differ between s and t
LazyWrites(s, t, curr_index) ==
    {[parent |-> curr_index, child |-> c, previous |-> s.lazy[c], written |-> t.lazy[c]]
        : c \in {i \in DOMAIN s.lazy : i # curr_index /\ t.lazy[i] # s.lazy[i]}}

\* the writes of every propagate that max_query runs, in a call that starts from s
RECURSIVE max_query_writes(_, _, _, _, _, _)
max_query_writes(s, curr_index, left_query, right_query, left_bound, right_bound) ==
    IF ~(left_query <= right_query) THEN {}
    ELSE
      LET p == propagate(s, curr_index) IN
      IF p.panic # NoPanic THEN {}
      ELSE IF left_query > right_bound \/ right_query < left_bound
      THEN LazyWrites(s, p, curr_index)
      ELSE IF left_query <= left_bound /\ right_query >= right_bound
      THEN LazyWrites(s, p, curr_index)
      ELSE
        LET mid_index == mid(left_bound, right_bound)
            max_left  == max_query(p, left(curr_index), left_query, right_query,
                                   left_bound, mid_index)
        IN  LazyWrites(s, p, curr_index)
            \cup max_query_writes(p, left(curr_index), left_query, right_query,
                                  left_bound, mid_index)
            \cup (IF max_left.s.panic # NoPanic THEN {}
                  ELSE max_query_writes(max_left.s, right(curr_index), left_query,
                                        right_query, mid_index + 1, right_bound))

\* the writes of every propagate that update_query runs, in a call that starts from s
RECURSIVE update_query_writes(_, _, _, _, _, _, _)
update_query_writes(s, curr_index, left_query, right_query, left_bound, right_bound, new_val) ==
    IF ~(left_query <= right_query) THEN {}
    ELSE
      LET p == propagate(s, curr_index) IN
      IF p.panic # NoPanic THEN {}
      ELSE IF left_query > right_bound \/ right_query < left_bound
      THEN LazyWrites(s, p, curr_index)
      ELSE IF left_query <= left_bound /\ right_query >= right_bound
      THEN \* the second propagate, after lazy[curr_index] = Some(new_val)
           LazyWrites(s, p, curr_index)
           \cup LazyWrites(p, update_query(s, curr_index, left_query, right_query,
                                           left_bound, right_bound, new_val), curr_index)
      ELSE
        LET mid_index == mid(left_bound, right_bound)
            a == update_query(p, left(curr_index), left_query, right_query,
                              left_bound, mid_index, new_val)
        IN  LazyWrites(s, p, curr_index)
            \cup update_query_writes(p, left(curr_index), left_query, right_query,
                                     left_bound, mid_index, new_val)
            \cup (IF a.panic # NoPanic THEN {}
                  ELSE update_query_writes(a, right(curr_index), left_query, right_query,
                                           mid_index + 1, right_bound, new_val))

\* a write replaces nothing or a pending value that is not smaller
WriteLowers(w) ==
    /\ w.written # None
    /\ w.previous # None => w.previous[1] >= w.written[1]

\* C13: whenever propagate at a node with pending value v writes a child's lazy
\* entry, the entry was None or a value >= v before: no pending value smaller
\* than v is overwritten with v, in any call of update or max on a reachable
\* tree.
C13_PendingNeverReplacedByLarger ==
    /\ (pc = "ready" /\ last.op = "update") =>
           \A w \in update_query_writes(before, 0, last.left_query, last.right_query,
                                        0, before.upper_bound, last.new_val) :
               WriteLowers(w)
    /\ (pc = "ready" /\ last.op = "max") =>
           \A w \in max_query_writes(before, 0, last.left_query, last.right_query,
                                     0, before.upper_bound) :
               WriteLowers(w)

\* an update has replaced a child's pending clamp by a smaller one
C13_Witness ==
    /\ pc = "ready"
    /\ last.op = "update"
    /\ \E w \in update_query_writes(before, 0, last.left_query, last.right_query,
                                    0, before.upper_bound, last.new_val) :
           /\ w.previous # None
           /\ w.written[1] < w.previous[1]

----------------------------------------------------------------------------
(* The nodes of the built tree: the slots build writes, each with the range *)
(* it covers                                                                *)

RECURSIVE NodesOf(_, _, _)
NodesOf(left_bound, right_bound, curr_index) ==
    IF left_bound = right_bound
    THEN {[curr_index |-> curr_index, left_bound |-> left_bound, right_bound |-> right_bound]}
    ELSE {[curr_index |-> curr_index, left_bound |-> left_bound, right_bound |-> right_bound]}
         \cup NodesOf(left_bound, mid(left_bound, right_bound), left(curr_index))
         \cup NodesOf(mid(left_bound, right_bound) + 1, right_bound, right(curr_index))

\* the nodes of s
Nodes(s) == NodesOf(0, s.upper_bound, 0)

\* the internal nodes of s: those that cover more than one position
InternalNodes(s) == {nd \in Nodes(s) : nd.left_bound < nd.right_bound}

\* what a node holds once its pending clamp is applied
Pending(s, i) == IF s.lazy[i] # None THEN s.lazy[i][1] ELSE s.tree[i]

\* C14: between operations, every internal node i of the built tree with
\* lazy[i] = None has tree[i] = max(tree[2i+1], tree[2i+2]).
C14_NodeIsMaxOfChildren ==
    pc = "ready" =>
        \A nd \in InternalNodes(st) :
            st.lazy[nd.curr_index] = None =>
                st.tree[nd.curr_index] =
                    cmp_max(st.tree[left(nd.curr_index)], st.tree[right(nd.curr_index)])

\* C14 amended: between operations, every internal node i of the built tree
\* with lazy[i] = None has tree[i] = max(v(2i+1), v(2i+2)), where v(c) is
\* lazy[c]'s value if lazy[c] is Some and tree[c] otherwise.
C14_NodeIsMaxOfChildrenPending ==
    pc = "ready" =>
        \A nd \in InternalNodes(st) :
            st.lazy[nd.curr_index] = None =>
                st.tree[nd.curr_index] =
                    cmp_max(Pending(st, left(nd.curr_index)), Pending(st, right(nd.curr_index)))

\* after an update, an internal node below the root has no pending clamp, one
\* child with a pending clamp and one without
C14_Witness ==
    /\ pc = "ready"
    /\ last.op = "update"
    /\ \E nd \in InternalNodes(st) :
           /\ nd.curr_index # 0
           /\ st.lazy[nd.curr_index] = None
           /\ st.lazy[left(nd.curr_index)] # None
           /\ st.lazy[right(nd.curr_index)] = None
           /\ st.tree[left(nd.curr_index)] > st.tree[nd.curr_index]

----------------------------------------------------------------------------
(* SpecSlots: trees of 1..SlotsBuildN elements, all 0, queried; those of up *)
(* to SlotsN elements also receive clamps to a value below the -1 that      *)
(* fills the slots build does not write, so that propagate writes the lazy  *)
(* entries of the children of leaves too                                    *)

SlotsN == 4
SlotsBuildN == 6

InitSlots == Built(UNION {[0..(n - 1) -> {0}] : n \in 1..SlotsBuildN})

UpdateSlots ==
    /\ VecLen(elements) <= SlotsN
    /\ \E x \in ValidRanges(st) : UpdateCall(x[1], x[2], NoContribution - 1, FALSE)

MaxSlots == \E x \in ValidRanges(st) : QueryCall(x[1], x[2], FALSE)

NextSlots == UpdateSlots \/ MaxSlots

SpecSlots == InitSlots /\ [][NextSlots]_vars

\* C15: for every n >= 1, build and every valid update and query access tree
\* and lazy only at indices below 4 * n: no call panics on an index, the arrays
\* have no more than 4 * n slots, every node of the built tree is a slot, and
\* so are 2i+1 and 2i+2 for every node i < 2n - 1, which propagate reads and
\* writes.
C15_FourTimesNSlotsSuffice ==
    /\ last.panic = NoPanic
    /\ pc = "ready" =>
           /\ DOMAIN st.tree \subseteq 0..(4 * VecLen(elements) - 1)
           /\ DOMAIN st.lazy \subseteq 0..(4 * VecLen(elements) - 1)
           /\ \A nd \in Nodes(st) :
                  /\ InBounds(st.tree, nd.curr_index)
                  /\ InBounds(st.lazy, nd.curr_index)
                  /\ nd.curr_index < 2 * VecLen(elements) - 1 =>
                         /\ InBounds(st.tree, left(nd.curr_index))
                         /\ InBounds(st.lazy, right(nd.curr_index))

\* an update has made propagate write the lazy entry of the right child of a
\* leaf, the node of the largest index below 2n - 1
C15_Witness ==
    /\ pc = "ready"
    /\ last.op = "update"
    /\ VecLen(elements) >= 3
    /\ \E nd \in Nodes(st) :
           /\ nd.left_bound = nd.right_bound
           /\ nd.curr_index = 2 * VecLen(elements) - 2
           /\ st.lazy[right(nd.curr_index)] # None

----------------------------------------------------------------------------
\* C16: in every state reachable by build, updates with any integer cap and
\* queries, a lazy entry is Some only at a slot that is a node of the built
\* tree, never at a slot below a leaf or otherwise unused; this includes the
\* tree of one element, whose root is a leaf.
C16_LazyOnlyAtNodes ==
    pc = "ready" =>
        \A i \in DOMAIN st.lazy :
            st.lazy[i] # None => \E nd \in Nodes(st) : nd.curr_index = i

----------------------------------------------------------------------------
(* SpecPure: two trees built from the same vector, of elements of either    *)
(* sign, receive the same updates and max calls, and st receives max calls  *)
(* of its own in between                                                    *)

PureN == 2
PureMax == 0

PureVals == (NoContribution - 1)..PureMax

InitPure ==
    \E vec \in Vectors(PureN, PureVals) :
        /\ pc = "ready"
        /\ nums = vec
        /\ st = new(vec, TRUE)
        /\ twin = new(vec, TRUE)
        /\ elements = vec
        /\ last = [NoCall EXCEPT !.op = "new"]
        /\ before = NoTree
        /\ nodes = <<>>

UpdatePure ==
    \E x \in ValidRanges(st), cap \in PureVals :
        /\ UpdateStep(x[1], x[2], cap, FALSE)
        /\ twin' = update(twin, x[1], x[2], cap)
        /\ UNCHANGED nodes

MaxPure ==
    \E x \in ValidRanges(st) :
        /\ QueryStep(x[1], x[2], FALSE)
        /\ twin' = max(twin, x[1], x[2]).s
        /\ UNCHANGED nodes

\* a max call that st alone receives
MaxAlone ==
    \E x \in ValidRanges(st) :
        /\ QueryStep(x[1], x[2], FALSE)
        /\ UNCHANGED <<twin, nodes>>

NextPure == UpdatePure \/ MaxPure \/ MaxAlone

SpecPure == InitPure /\ [][NextPure]_vars

\* C17: a max call with a valid range leaves upper_bound and the logical array
\* unchanged: whatever updates and queries follow, the tree that received such
\* calls and the tree that did not answer every max query alike.
C17_QueriesArePure ==
    pc = "ready" =>
        /\ st.upper_bound = twin.upper_bound
        /\ \A x \in ValidRanges(st) : Observed(st, x[1], x[2]) = Observed(twin, x[1], x[2])

\* an update has followed a max call that st alone received, and the trees
\* differ inside
C17_Witness ==
    /\ pc = "ready"
    /\ last.op = "update"
    /\ st.tree # twin.tree

----------------------------------------------------------------------------
(* handson-3: optimal_selection. A pair (x, y) is <<x, y>>, a slice or Vec  *)
(* a sequence.                                                              *)

\* the comparator of topics.sort_by: a comes before b
PairBefore(a, b) == IF a[1] = b[1] THEN a[2] < b[2] ELSE a[1] < b[1]

\* pair put in its place in a sorted sequence, after the pairs equal to it
RECURSIVE SortedInsert(_, _)
SortedInsert(sorted, pair) ==
    IF sorted = <<>> THEN <<pair>>
    ELSE IF PairBefore(pair, sorted[Len(sorted)])
    THEN Append(SortedInsert(SubSeq(sorted, 1, Len(sorted) - 1), pair), sorted[Len(sorted)])
    ELSE Append(sorted, pair)

\* topics.sort_by(...): a stable sort
RECURSIVE sort_by(_)
sort_by(topics) ==
    IF topics = <<>> THEN <<>>
    ELSE SortedInsert(sort_by(SubSeq(topics, 1, Len(topics) - 1)), topics[Len(topics)])

\* the closure given to lis.binary_search_by
SearchOrdering(p, pair) ==
    IF p[1] >= pair[1] \/ p[2] >= pair[2] THEN "Greater" ELSE "Less"

\* lis.binary_search_by with a closure that never answers Equal: Err(pos) with
\* Less just before pos and Greater at pos. There is one such pos when the
\* closure sorts lis, and the search may end at any of them when it does not.
binary_search_by(lis, pair) ==
    {pos \in 0..Len(lis) :
        /\ pos > 0 => SearchOrdering(lis[pos], pair) = "Less"
        /\ pos < Len(lis) => SearchOrdering(lis[pos + 1], pair) = "Greater"}

\* the body of `for &pair in topics.iter()`, from the k-th pair on: the values
\* lis.len() can have at the end
RECURSIVE FindLis(_, _, _)
FindLis(topics, k, lis) ==
    IF k > Len(topics) THEN {Len(lis)}
    ELSE UNION {FindLis(topics, k + 1,
                        IF pos = Len(lis) THEN Append(lis, topics[k])
                        ELSE [lis EXCEPT ![pos + 1] = topics[k]])
                : pos \in binary_search_by(lis, topics[k])}

\* optimal_selection: the slice after the call and the values it can return
optimal_selection(topics) ==
    [topics |-> sort_by(topics), ret |-> FindLis(sort_by(topics), 1, <<>>)]

----------------------------------------------------------------------------
(* SpecSelect: optimal_selection called on a slice of at most SelectN pairs *)
(* of coordinates in 1..SelectMax                                           *)

SelectN == 3
SelectMax == 2

SelectInputs ==
    UNION {[1..n -> (1..SelectMax) \X (1..SelectMax)] : n \in 0..SelectN}

InitSelect ==
    \E input \in SelectInputs :
        /\ pc = "ready"
        /\ last = [op |-> "none", input |-> input, topics |-> input, ret |-> None]
        /\ nums = <<>>
        /\ st = NoTree
        /\ elements = <<>>
        /\ before = NoTree
        /\ twin = NoTree
        /\ nodes = <<>>

\* optimal_selection(&mut topics)
OptimalSelection ==
    /\ pc = "ready"
    /\ \E ret \in optimal_selection(last.topics).ret :
           last' = [op |-> "optimal_selection", input |-> last.input,
                    topics |-> optimal_selection(last.topics).topics, ret |-> Some(ret)]
    /\ pc' = "done"
    /\ UNCHANGED <<nums, st, elements, before, twin, nodes>>

NextSelect == OptimalSelection

SpecSelect == InitSelect /\ [][NextSelect]_vars

\* the pairs at the positions of ps follow one another, in some order, both
\* coordinates strictly increasing
IsChain(topics, ps) ==
    \A i, j \in ps :
        i # j => \/ topics[i][1] < topics[j][1] /\ topics[i][2] < topics[j][2]
                 \/ topics[j][1] < topics[i][1] /\ topics[j][2] < topics[i][2]

\* the size of the largest chain among the pairs of topics
LongestChain(topics) ==
    LET sizes == {Cardinality(ps) : ps \in {q \in SUBSET DOMAIN topics : IsChain(topics, q)}}
    IN  CHOOSE m \in sizes : \A x \in sizes : x <= m

\* C18: for every slice of pairs, optimal_selection returns the size of the
\* largest subset of the pairs that can be put in a sequence in which x and y
\* both strictly increase, also when several pairs share the same x.
C18_LongestChain ==
    last.op = "optimal_selection" => last.ret = Some(LongestChain(last.input))

----------------------------------------------------------------------------
(* handson-2/is-there: the SegmentTree of sets of overlap counts. A segment *)
(* (l, r) is <<l, r>>; segments and occurrences are vectors indexed from 0; *)
(* the tree is [tree, upper_bound, panic], tree a vector of sets.           *)

\* the sweep-line loop of compute_occurrences, from the k-th segment on
RECURSIVE SweepLine(_, _, _, _)
SweepLine(c, segments, size, k) ==
    IF c.panic # NoPanic \/ k >= VecLen(segments) THEN c
    ELSE
      LET l == segments[k][1]
          r == segments[k][2]
      IN  IF ~InBounds(c.count, l) THEN [c EXCEPT !.panic = "index out of bounds"]
          ELSE LET c1 == [c EXCEPT !.count[l] = @ + 1]
                   c2 == IF r + 1 < size THEN [c1 EXCEPT !.count[r + 1] = @ - 1] ELSE c1
               IN  SweepLine(c2, segments, size, k + 1)

\* the same loop, the segment ending at its right bound
RECURSIVE SweepLineClosed(_, _, _, _)
SweepLineClosed(c, segments, size, k) ==
    IF c.panic # NoPanic \/ k >= VecLen(segments) THEN c
    ELSE
      LET l == segments[k][1]
          r == segments[k][2]
      IN  IF ~InBounds(c.count, l) THEN [c EXCEPT !.panic = "index out of bounds"]
          ELSE LET c1 == [c EXCEPT !.count[l] = @ + 1]
                   c2 == IF r < size THEN [c1 EXCEPT !.count[r] = @ - 1] ELSE c1
               IN  SweepLineClosed(c2, segments, size, k + 1)

\* the cumulative sum of compute_occurrences: for i in 1..size
RECURSIVE CumulativeSum(_, _, _)
CumulativeSum(count, size, i) ==
    IF i >= size THEN count
    ELSE CumulativeSum([count EXCEPT ![i] = @ + count[i - 1]], size, i + 1)

compute_occurrences_closed(segments, size) ==
    LET c == SweepLineClosed([count |-> VecOf(0, size), panic |-> NoPanic], segments, size, 0)
    IN  IF c.panic # NoPanic THEN c
        ELSE [count |-> CumulativeSum(c.count, size, 1), panic |-> NoPanic]

\* SegmentTree::compute_occurrences: the vector returned and the panic raised
compute_occurrences(segments, size) ==
    LET c == SweepLine([count |-> VecOf(0, size), panic |-> NoPanic], segments, size, 0)
    IN  IF c.panic # NoPanic THEN c
        ELSE [count |-> CumulativeSum(c.count, size, 1), panic |-> NoPanic]

\* SegmentTree::build of is-there
RECURSIVE build_sets(_, _, _, _, _)
build_sets(s, occurrences, left_bound, right_bound, curr_index) ==
    IF left_bound = right_bound THEN
        IF ~InBounds(occurrences, left_bound) \/ ~InBounds(s.tree, curr_index)
        THEN Panic(s, "index out of bounds")
        ELSE [s EXCEPT !.tree[curr_index] = @ \cup {occurrences[left_bound]}]
    ELSE
      LET mid_index   == mid(left_bound, right_bound)
          left_child  == left(curr_index)
          right_child == right(curr_index)
          a == build_sets(s, occurrences, left_bound, mid_index, left_child)
          b == IF a.panic # NoPanic THEN a
               ELSE build_sets(a, occurrences, mid_index + 1, right_bound, right_child)
      IN  IF b.panic # NoPanic THEN b
          ELSE IF ~InBounds(b.tree, left_child) \/ ~InBounds(b.tree, right_child)
                  \/ ~InBounds(b.tree, curr_index)
          THEN Panic(b, "index out of bounds")
          ELSE [b EXCEPT !.tree[curr_index] = b.tree[left_child] \cup b.tree[right_child]]

\* SegmentTree::new of is-there, on a non-empty vector of segments
new_sets(segments) ==
    LET upper_bound == VecLen(segments) - 1
        n           == 4 * VecLen(segments)
        tree        == VecOf({}, n)
        occurrences == compute_occurrences(segments, upper_bound + 1)
        segment_tree == [tree |-> tree, upper_bound |-> upper_bound, panic |-> NoPanic]
    IN  IF occurrences.panic # NoPanic THEN Panic(segment_tree, occurrences.panic)
        ELSE build_sets(segment_tree, occurrences.count, 0, upper_bound, 0)

\* SegmentTree::is_there_query: the value returned and the panic raised
RECURSIVE is_there_query(_, _, _, _, _, _, _)
is_there_query(s, curr_index, left_query, right_query, overlapped_seg, left_bound, right_bound) ==
    IF ~(left_query <= right_query)
    THEN [ret |-> FALSE, panic |-> "Invalid query range"]
    \* No overlap
    ELSE IF left_query > right_bound \/ right_query < left_bound
    THEN [ret |-> FALSE, panic |-> NoPanic]
    \* Total overlap
    ELSE IF left_query <= left_bound /\ right_query >= right_bound THEN
        IF ~InBounds(s.tree, curr_index) THEN [ret |-> FALSE, panic |-> "index out of bounds"]
        ELSE [ret |-> overlapped_seg \in s.tree[curr_index], panic |-> NoPanic]
    \* Partial overlap
    ELSE
      LET mid_index == mid(left_bound, right_bound)
          l == is_there_query(s, left(curr_index), left_query, right_query,
                              overlapped_seg, left_bound, mid_index)
      IN  IF l.panic # NoPanic \/ l.ret THEN l
          ELSE is_there_query(s, right(curr_index), left_query, right_query,
                              overlapped_seg, mid_index + 1, right_bound)

\* SegmentTree::is_there
is_there(s, query) ==
    LET r == is_there_query(s, 0, query.left_query, query.right_query,
                            query.overlapped_seg, 0, s.upper_bound)
    IN  [ret |-> IF r.panic # NoPanic THEN None ELSE Some(IF r.ret THEN 1 ELSE 0),
         panic |-> r.panic]

----------------------------------------------------------------------------
(* SpecIsThere: a tree built from 1..IsThereN segments inside [0, n - 1]    *)
(* answers a query; st is the tree, nums the segments it was built from     *)

IsThereN == 3

\* the segments (l, r) with 0 <= l <= r <= n - 1
SegmentsIn(n) == {x \in (0..(n - 1)) \X (0..(n - 1)) : x[1] <= x[2]}

InitIsThere ==
    \E n \in 1..IsThereN :
        \E segments \in [0..(n - 1) -> SegmentsIn(n)] :
            LET s == new_sets(segments) IN
                /\ pc = IF s.panic = NoPanic THEN "ready" ELSE "panicked"
                /\ nums = segments
                /\ st = s
                /\ last = [op |-> "new", left_query |-> 0, right_query |-> 0,
                           overlapped_seg |-> 0, ret |-> None, panic |-> s.panic]
                /\ elements = <<>>
                /\ before = NoTree
                /\ twin = NoTree
                /\ nodes = <<>>

\* println!("{}", segment_tree.is_there(query)), for a query (i, j, k) with
\* 0 <= i <= j <= n - 1 and k from -1 to one more than the number of segments
IsThere ==
    /\ pc = "ready"
    /\ \E x \in ValidRanges(st), k \in (0 - 1)..(VecLen(nums) + 1) :
        LET query == [left_query |-> x[1], right_query |-> x[2], overlapped_seg |-> k]
            r     == is_there(st, query)
        IN  /\ last' = [op |-> "is_there", left_query |-> x[1], right_query |-> x[2],
                        overlapped_seg |-> k, ret |-> r.ret, panic |-> r.panic]
            /\ pc' = IF r.panic = NoPanic THEN "answered" ELSE "panicked"
    /\ UNCHANGED <<nums, st, elements, before, twin, nodes>>

\* the answer is printed and the loop takes the next query: nothing of the
\* query is kept
NextQuery ==
    /\ pc = "answered"
    /\ pc' = "ready"
    /\ last' = [op |-> "new", left_query |-> 0, right_query |-> 0,
                overlapped_seg |-> 0, ret |-> None, panic |-> NoPanic]
    /\ UNCHANGED <<nums, st, elements, before, twin, nodes>>

NextIsThere == IsThere \/ NextQuery

SpecIsThere == InitIsThere /\ [][NextIsThere]_vars

\* the number of segments that cover position p
Coverage(segments, p) ==
    Cardinality({i \in DOMAIN segments : segments[i][1] <= p /\ p <= segments[i][2]})

\* C19: for n segments inside [0, n - 1] and a query (i, j, k) with
\* 0 <= i <= j <= n - 1, is_there returns 1 exactly when some position p in
\* [i, j] is covered by exactly k of the segments, and 0 otherwise.
C19_IsThereIffCovered ==
    last.op = "is_there" =>
        last.ret = Some(IF \E p \in last.left_query..last.right_query :
                               Coverage(nums, p) = last.overlapped_seg
                        THEN 1 ELSE 0)

\* a query over a range that joins two nodes of the tree finds, at its last
\* position only, a position covered by two or more segments
C19_Witness ==
    /\ last.op = "is_there"
    /\ last.ret = Some(1)
    /\ last.overlapped_seg >= 2
    /\ last.left_query > 0
    /\ last.left_query < last.right_query
    /\ \A p \in last.left_query..(last.right_query - 1) :
           Coverage(nums, p) # last.overlapped_seg

====
